---- MODULE Spec2Model ----
(***************************************************************************)
(* Model of client/client.go: the credential session (connect), the paged  *)
(* query engine (pagedQuery, stdPagedQuery, largeDataPagedQuery and the    *)
(* pageOverJob goroutine), the result formatters and the streaming sink    *)
(* (dataChan) drained by a consumer.  The backend service is the           *)
(* environment: it answers jobs.query, jobs.insert and                     *)
(* jobs.getQueryResults nondeterministically.                              *)
(***************************************************************************)
EXTENDS Integers, Sequences, FiniteSets, TLC

VARIABLES
    \* Client fields (client.go 21-30)
    token, service, allowLargeResults, tempTableName,
    \* environment bookkeeping
    exchanges, expiries, queries,
    \* backend job: size of the result, completion, and the request log
    totalRows, jobDone, irregular, calls, inflight,
    \* pagedQuery / stdPagedQuery / largeDataPagedQuery frame
    mpc, streaming, pageSize, msvc, runningJob, qr, rows, headers,
    mout, mnext, ret,
    \* pageOverJob goroutine frame
    fpc, fsvc, rowCount, jobRef, pageToken, hcNil, fqr,
    \* channels
    resultClosed, headersClosed, sinkCloses, sink,
    \* process abort (Go panic) and per-query history
    panicked, fetchFailed, connectFailed, pages,
    \* SyncQuery / Count / InsertRow frame: position, the call and its
    \* arguments, the backend's response, the value returned
    spc, sop, sres, sret,
    \* concurrent callers of connect: each caller's position in connect, the
    \* exchange it performs and what connect returned to it
    conn

vars == <<token, service, allowLargeResults, tempTableName,
          exchanges, expiries, queries,
          totalRows, jobDone, irregular, calls, inflight,
          mpc, streaming, pageSize, msvc, runningJob, qr, rows, headers,
          mout, mnext, ret,
          fpc, fsvc, rowCount, jobRef, pageToken, hcNil, fqr,
          resultClosed, headersClosed, sinkCloses, sink,
          panicked, fetchFailed, connectFailed, pages,
          spc, sop, sres, sret, conn>>

clientVars == <<token, service, allowLargeResults, tempTableName>>
backendVars == <<totalRows, jobDone, irregular, calls, inflight>>
mainVars == <<mpc, streaming, pageSize, msvc, runningJob, qr, rows, headers,
              mout, mnext, ret>>
histVars == <<fetchFailed, connectFailed, pages>>
fetchVars == <<fpc, fsvc, rowCount, jobRef, pageToken, hcNil, fqr>>
chanVars == <<resultClosed, headersClosed, sinkCloses, sink>>
syncVars == <<spc, sop, sres, sret>>

----------------------------------------------------------------------------
\* Bounds of the model.
MaxTotal == 3        \* largest totalRows of a query result
MaxPageSize == 2     \* largest pageSize a caller passes
MaxPage == 2         \* most rows the backend puts in one continuation page
MaxIrregular == 1    \* getQueryResults replies per query that are not a full
                     \* page with a job reference, and short jobs.query pages
MaxExpiries == 1     \* token expiries
MaxQueries == 2      \* paged queries issued on the client

\* const defaultPageSize (5000 in the source), scaled to the result sizes above
defaultPageSize == 2

Min(a, b) == IF a < b THEN a ELSE b

----------------------------------------------------------------------------
\* Backend data.  A result table has the schema <<id, name>>; row r of the
\* table is the raw TableRow with cells F[c].V.
SchemaFields == <<[Name |-> "id"], [Name |-> "name"]>>
RawRow(r) == [F |-> <<[V |-> r], [V |-> r + 10]>>]
RawRows(from, n) == [i \in 1..n |-> RawRow(from + i)]

NilRef == 0                  \* a nil *bigquery.JobReference
QueryJob == 1                \* the job jobs.query / jobs.insert starts
PageJob == 2                 \* the job a page reply names as holding the result
NoPageToken == 0             \* the empty page token ""

\* A response of jobs.query / jobs.getQueryResults (the fields the client reads).
ErrReply == [ok |-> FALSE, JobComplete |-> FALSE, TotalRows |-> 0,
             JobReference |-> NilRef, PageToken |-> NoPageToken,
             Rows |-> <<>>, Fields |-> <<>>]
NoReply == ErrReply

IncompleteReply(ref) ==
    [ok |-> TRUE, JobComplete |-> FALSE, TotalRows |-> 0,
     JobReference |-> ref, PageToken |-> NoPageToken,
     Rows |-> <<>>, Fields |-> <<>>]

\* A complete page of n rows starting after row `from` of a table of T rows.
CompleteReply(T, from, n, ref) ==
    [ok |-> TRUE, JobComplete |-> TRUE, TotalRows |-> T,
     JobReference |-> ref,
     PageToken |-> IF from + n < T THEN from + n ELSE NoPageToken,
     Rows |-> RawRows(from, n), Fields |-> SchemaFields]

\* The rows of a full page starting after row `from`, and the page sizes the
\* backend may choose (a page may be cut short, down to no rows at all).
FullPage(T, from, limit) == IF from >= T THEN 0 ELSE Min(limit, T - from)
PageSizes(T, from, limit, mayBeShort) ==
    {n \in 0..FullPage(T, from, limit) :
        mayBeShort \/ n = FullPage(T, from, limit)}

----------------------------------------------------------------------------
\* Result formatter (client.go 408-455).
headersForResults(results) ==
    [c \in 1..Len(results.Fields) |-> results.Fields[c].Name]

headersForJobResults(results) ==
    [c \in 1..Len(results.Fields) |-> results.Fields[c].Name]

formatResults(results, numRows) ==
    [r \in 1..numRows |->
        [c \in 1..Len(results.Fields) |-> results.Rows[r].F[c].V]]

formatResultsFromJob(results, numRows) ==
    [r \in 1..numRows |->
        [c \in 1..Len(results.Fields) |-> results.Rows[r].F[c].V]]

\* Data (client.go 33-37)
Data(h, r, e) == [Headers |-> h, Rows |-> r, Err |-> e]
NoData == Data(<<>>, <<>>, "none")
NoRet == [rows |-> <<>>, headers |-> <<>>, err |-> "none"]

\* A Go error value: its message and the failed fields it identifies.
NoErr == [msg |-> "none", fields |-> {}]
Err(msg) == [msg |-> msg, fields |-> {}]

\* The call in the SyncQuery / Count / InsertRow frame and its return value
\* (rows of SyncQuery, the int64 of Count, the error of SyncQuery / InsertRow).
NoCall == [op |-> "none", maxResults |-> 0]
SyncRet(r, v, e) == [rows |-> r, val |-> v, err |-> e]
NoSyncRet == SyncRet(<<>>, 0, NoErr)

\* Decimal strings: what the backend writes into the cell of a count(*) and
\* strconv.ParseInt(s, 10, 64), which returns 0 and an error for other text.
Digits == <<"0", "1", "2", "3", "4", "5", "6", "7", "8", "9">>
FormatInt(n) == Digits[n + 1]
ParseInt(str) ==
    IF \E n \in 0..9 : Digits[n + 1] = str
    THEN [val |-> CHOOSE n \in 0..9 : Digits[n + 1] = str, err |-> FALSE]
    ELSE [val |-> 0, err |-> TRUE]

\* formatResults 422: results.Rows[r] is indexed for every r < numRows
formatOverrun(results, numRows) == numRows > Len(results.Rows)

\* Count 460-467: the value Count makes of what SyncQuery returned
Count(res, err) ==
    IF err = NoErr /\ Len(res) > 0 THEN ParseInt(res[1][1]).val ELSE 0

----------------------------------------------------------------------------
\* Credential session (client.go 68-114).
NoToken == [gen |-> 0, expired |-> FALSE]
NoService == 0

\* tokenReusable with the expiry test inverted
tokenReusableInverted(tok, svc) ==
    /\ tok # NoToken
    /\ tok.expired /\ svc # NoService

\* client.go 69-73: the cached session is reused
tokenReusable(tok, svc) ==
    /\ tok # NoToken
    /\ ~tok.expired /\ svc # NoService

\* Goroutines that call connect() on the same client at the same time, and a
\* caller's frame of connect: its position, the credential exchange it
\* performs (0: none) and the handle and error connect returned to it.
Callers == {1, 2}
Connect(pc, gen, svc, err) == [pc |-> pc, gen |-> gen, ret |-> svc, err |-> err]
NoConnect == Connect("idle", 0, NoService, "none")

\* The outcomes of one connect() call from the cached <<tok, svc>>; gen names
\* the credential exchange this call would perform.
connect(tok, svc, gen) ==
    IF tokenReusable(tok, svc)
    THEN {[token |-> tok, service |-> svc, ret |-> svc, err |-> "none",
           asserted |-> FALSE, panic |-> FALSE]}
    ELSE { \* ioutil.ReadFile fails: panic(err)
           [token |-> tok, service |-> svc, ret |-> NoService, err |-> "none",
            asserted |-> FALSE, panic |-> TRUE],
           \* t.Assert fails: return nil, err
           [token |-> tok, service |-> svc, ret |-> NoService, err |-> "auth",
            asserted |-> TRUE, panic |-> FALSE],
           \* bigquery.New fails after c.token = token
           [token |-> [gen |-> gen, expired |-> FALSE], service |-> svc,
            ret |-> NoService, err |-> "auth",
            asserted |-> TRUE, panic |-> FALSE],
           \* success: c.token and c.service replaced
           [token |-> [gen |-> gen, expired |-> FALSE], service |-> gen,
            ret |-> gen, err |-> "none",
            asserted |-> TRUE, panic |-> FALSE] }

----------------------------------------------------------------------------
\* Backend service (environment).  Request log entries.
Call(op, ref, tok) == [op |-> op, ref |-> ref, tok |-> tok]

\* Replies of jobs.query for a result of T rows bounded by maxResults: an
\* error, "still running", or a first page (a page may be cut short of
\* maxResults by the response size limit).
QueryReplies(T, maxResults) ==
    {ErrReply, IncompleteReply(QueryJob)}
    \cup {CompleteReply(T, 0, n, QueryJob) :
            n \in PageSizes(T, 0, maxResults, irregular < MaxIrregular)}

\* The complete reply to "select count(*)" on a table of N rows: one row of
\* one cell (n = 1), or that row cut off the response (n = 0).
CountReply(N, n) ==
    [ok |-> TRUE, JobComplete |-> TRUE, TotalRows |-> 1,
     JobReference |-> QueryJob, PageToken |-> NoPageToken,
     Rows |-> [i \in 1..n |-> [F |-> <<[V |-> FormatInt(N)]>>]],
     Fields |-> <<[Name |-> "f0_"]>>]

\* Replies of jobs.query to SyncQuery, called by Count or directly.
SyncReplies(op, T, maxResults) ==
    IF op = "Count"
    THEN {ErrReply, IncompleteReply(QueryJob), CountReply(T, 1)}
         \cup (IF irregular < MaxIrregular THEN {CountReply(T, 0)} ELSE {})
    ELSE QueryReplies(T, maxResults)

\* Replies of tabledata.insertAll for one row: an error, or a result whose
\* InsertErrors name the fields of the row that failed.
InsertFields == {"id", "name"}
InsertReplies ==
    {[ok |-> FALSE, InsertErrors |-> {}]}
    \cup {[ok |-> TRUE, InsertErrors |-> f] : f \in SUBSET InsertFields}

\* The regular getQueryResults reply: a full page that names the job.
RegularReply(T, tok) ==
    CompleteReply(T, tok, FullPage(T, tok, MaxPage), PageJob)

\* Replies of jobs.getQueryResults for the page after row tok: an error, the
\* regular reply, "still running", a short page, a page without job reference.
JobReplies(T, tok) ==
    {ErrReply, RegularReply(T, tok)}
    \cup (IF irregular < MaxIrregular
          THEN (IF jobDone THEN {}
                ELSE {IncompleteReply(r) : r \in {NilRef, PageJob}})
               \cup {CompleteReply(T, tok, n, r) :
                       n \in PageSizes(T, tok, MaxPage, TRUE),
                       r \in {NilRef, PageJob}}
          ELSE {})

\* A job-completion reply that carries no page: a reply that names the job
\* like the regular one, but with no rows and an empty schema field list.
NoSchemaReply(T, tok) ==
    [CompleteReply(T, tok, 0, PageJob) EXCEPT !.Fields = <<>>]

\* Replies to a continuation fetch of pageOverJob.
PageReplies(T, tok) ==
    JobReplies(T, tok)
    \cup (IF irregular < MaxIrregular THEN {NoSchemaReply(T, tok)} ELSE {})

\* The backend's bookkeeping for a reply it has sent (isPoll: the request was
\* a getQueryResults).
backendAfter(reply, tok, isPoll) ==
    /\ jobDone' = (jobDone \/ (reply.ok /\ reply.JobComplete))
    /\ irregular' =
         IF ~reply.ok THEN irregular
         ELSE IF isPoll
         THEN (IF reply = RegularReply(totalRows, tok)
               THEN irregular ELSE irregular + 1)
         ELSE (IF reply.JobComplete
                  /\ Len(reply.Rows) < FullPage(totalRows, 0, pageSize)
               THEN irregular + 1 ELSE irregular)
    /\ inflight' = inflight - 1
    /\ UNCHANGED <<totalRows, calls>>

\* The pages the backend has served so far, in the order of the replies: the
\* cells of the raw rows of each completed reply.
PageRows(reply) ==
    [r \in 1..Len(reply.Rows) |->
        [c \in 1..Len(reply.Rows[r].F) |-> reply.Rows[r].F[c].V]]
pagesAfter(reply) ==
    IF reply.ok /\ reply.JobComplete THEN Append(pages, PageRows(reply))
    ELSE pages

issue(op, ref, tok) ==
    /\ calls' = Append(calls, Call(op, ref, tok))
    /\ inflight' = inflight + 1
    /\ UNCHANGED <<totalRows, jobDone, irregular>>

----------------------------------------------------------------------------
Init ==
    /\ token = NoToken /\ service = NoService
    /\ allowLargeResults \in BOOLEAN
    /\ tempTableName \in {<<>>, <<"t">>}
    /\ exchanges = 0 /\ expiries = 0 /\ queries = 0
    /\ totalRows = 0 /\ jobDone = FALSE /\ irregular = 0
    /\ calls = <<>> /\ inflight = 0
    /\ mpc = "idle" /\ streaming = FALSE /\ pageSize = defaultPageSize
    /\ msvc = NoService /\ runningJob = NilRef /\ qr = NoReply
    /\ rows = <<>> /\ headers = <<>>
    /\ mout = NoData /\ mnext = "idle" /\ ret = NoRet
    /\ fpc = "none" /\ fsvc = NoService /\ rowCount = 0 /\ jobRef = NilRef
    /\ pageToken = NoPageToken /\ hcNil = FALSE /\ fqr = NoReply
    /\ resultClosed = FALSE /\ headersClosed = FALSE
    /\ sinkCloses = 0 /\ sink = <<>>
    /\ panicked = FALSE /\ fetchFailed = FALSE /\ connectFailed = FALSE
    /\ pages = <<>>
    /\ spc = "idle" /\ sop = NoCall /\ sres = NoReply /\ sret = NoSyncRet
    /\ conn = [p \in Callers |-> NoConnect]

\* A new call on the client: fresh frames, fresh channels, a fresh backend job.
begin(isStreaming, size) ==
    /\ ~panicked /\ mpc \in {"idle", "done"} /\ queries < MaxQueries
    /\ queries' = queries + 1
    /\ streaming' = isStreaming /\ pageSize' = size
    /\ totalRows' \in 0..MaxTotal
    /\ jobDone' = FALSE /\ irregular' = 0
    /\ calls' = <<>> /\ inflight' = 0
    /\ mpc' = "connect"
    /\ msvc' = NoService /\ runningJob' = NilRef /\ qr' = NoReply
    /\ rows' = <<>> /\ headers' = <<>>
    /\ mout' = NoData /\ mnext' = "idle" /\ ret' = NoRet
    /\ fpc' = "none" /\ fsvc' = NoService /\ rowCount' = 0 /\ jobRef' = NilRef
    /\ pageToken' = NoPageToken /\ hcNil' = FALSE /\ fqr' = NoReply
    /\ resultClosed' = FALSE /\ headersClosed' = FALSE
    /\ sinkCloses' = 0 /\ sink' = <<>>
    /\ fetchFailed' = FALSE /\ connectFailed' = FALSE /\ pages' = <<>>
    /\ UNCHANGED <<clientVars, exchanges, expiries, panicked>>
    /\ UNCHANGED syncVars
    /\ UNCHANGED conn

\* client.go 145-147
AsyncQuery == \E size \in 1..MaxPageSize : begin(TRUE, size)

\* client.go 150-152
Query == begin(FALSE, defaultPageSize)

\* The token's lifetime runs out (oauth.Token.Expired becomes true).  Only
\* connect reads the expiry, so the step is taken where a connect call is next.
Expire ==
    /\ ~panicked /\ token # NoToken /\ ~token.expired
    /\ \/ mpc = "connect" \/ fpc = "connect" \/ spc = "connect"
       \/ \E p \in Callers : conn[p].pc = "check"
    /\ expiries < MaxExpiries
    /\ token' = [token EXCEPT !.expired = TRUE]
    /\ expiries' = expiries + 1
    /\ UNCHANGED <<service, allowLargeResults, tempTableName, exchanges,
                   queries, backendVars, mainVars, fetchVars, chanVars,
                   panicked, histVars>>
    /\ UNCHANGED syncVars
    /\ UNCHANGED conn

\* failWith that returns the error without sending it to dataChan
failWithNoSend(e) ==
    /\ ret' = [rows |-> <<>>, headers |-> <<>>, err |-> e]
    /\ mpc' = "done" /\ UNCHANGED <<mout, mnext>>

\* The early-error return shared by pagedQuery 313-318, stdPagedQuery 171-178
\* and largeDataPagedQuery 255-262: send Data{Err} if streaming, return err.
failWith(e) ==
    /\ ret' = [rows |-> <<>>, headers |-> <<>>, err |-> e]
    /\ IF streaming
       THEN mout' = Data(<<>>, <<>>, e) /\ mpc' = "send" /\ mnext' = "done"
       ELSE mpc' = "done" /\ UNCHANGED <<mout, mnext>>

\* largePath that ignores the temp table name
largePathFlagOnly == allowLargeResults

\* pagedQuery 320: the large-result path is configured
largePath == allowLargeResults /\ Len(tempTableName) > 0

\* client.go 310-325
pagedQuery ==
    /\ ~panicked /\ mpc = "connect"
    /\ \E o \in connect(token, service, exchanges + 1) :
        /\ token' = o.token /\ service' = o.service
        /\ exchanges' = IF o.asserted THEN exchanges + 1 ELSE exchanges
        /\ panicked' = o.panic
        /\ IF o.panic
           THEN UNCHANGED <<mainVars, connectFailed>>
           ELSE IF o.err # "none"
           THEN /\ failWith(o.err)
                /\ connectFailed' = TRUE
                /\ UNCHANGED <<streaming, pageSize, msvc, runningJob, qr,
                               rows, headers>>
           ELSE /\ msvc' = o.ret
                /\ mpc' = IF largePath THEN "insert" ELSE "query"
                /\ UNCHANGED <<streaming, pageSize, runningJob, qr, rows,
                               headers, mout, mnext, ret, connectFailed>>
    /\ UNCHANGED <<allowLargeResults, tempTableName, expiries, queries,
                   backendVars, fetchVars, chanVars, fetchFailed, pages>>
    /\ UNCHANGED syncVars
    /\ UNCHANGED conn

\* The consumer of dataChan receives the pending send (async_example.go 23-42).
consume ==
    /\ ~panicked /\ mpc = "send"
    /\ IF sinkCloses > 0
       THEN panicked' = TRUE /\ UNCHANGED <<mpc, sink>>
       ELSE sink' = Append(sink, mout) /\ mpc' = mnext /\ UNCHANGED panicked
    /\ UNCHANGED <<clientVars, exchanges, expiries, queries, backendVars,
                   streaming, pageSize, msvc, runningJob, qr, rows, headers,
                   mout, mnext, ret, fetchVars, resultClosed, headersClosed,
                   sinkCloses, histVars>>
    /\ UNCHANGED syncVars
    /\ UNCHANGED conn

\* stdPagedQuery 180-191 / largeDataPagedQuery 264-274: the first response.
\* h and r are the headers and rows the path's formatter made of it.
firstPage(reply, h, r) ==
    /\ qr' = reply
    /\ IF reply.JobComplete
       THEN /\ headers' = h /\ rows' = r
            /\ IF streaming
               THEN /\ mout' = Data(h, r, "none")
                    /\ mpc' = "send" /\ mnext' = "page"
               ELSE mpc' = "page" /\ UNCHANGED <<mout, mnext>>
       ELSE /\ headers' = <<>> /\ rows' = <<>>
            /\ mpc' = "page" /\ UNCHANGED <<mout, mnext>>
    /\ UNCHANGED ret

\* stdPagedQueryCall that starts the pageOverJob goroutine before the response
stdPagedQueryCallEager ==
    /\ ~panicked /\ mpc = "query"
    /\ issue("submitQuery", NilRef, NoPageToken)
    /\ mpc' = "queryWait" /\ fpc' = "connect"
    /\ UNCHANGED <<clientVars, exchanges, expiries, queries, streaming,
                   pageSize, msvc, runningJob, qr, rows, headers, mout, mnext,
                   ret, fsvc, rowCount, jobRef, pageToken, hcNil, fqr,
                   chanVars, panicked, histVars>>
    /\ UNCHANGED syncVars
    /\ UNCHANGED conn

\* stdPagedQuery 157-169: service.Jobs.Query(project, query) is sent
stdPagedQueryCall ==
    /\ ~panicked /\ mpc = "query"
    /\ issue("submitQuery", NilRef, NoPageToken)
    /\ mpc' = "queryWait"
    /\ UNCHANGED <<clientVars, exchanges, expiries, queries, streaming,
                   pageSize, msvc, runningJob, qr, rows, headers, mout, mnext,
                   ret, fetchVars, chanVars, panicked, histVars>>
    /\ UNCHANGED syncVars
    /\ UNCHANGED conn

\* stdPagedQuery 169-191: the response of jobs.query
stdPagedQuery ==
    /\ ~panicked /\ mpc = "queryWait"
    /\ \E reply \in QueryReplies(totalRows, pageSize) :
        /\ backendAfter(reply, 0, FALSE)
        /\ pages' = pagesAfter(reply)
        /\ IF ~reply.ok
           THEN failWith("backend") /\ UNCHANGED <<qr, rows, headers>>
           ELSE firstPage(reply, headersForResults(reply),
                          formatResults(reply, Len(reply.Rows)))
    /\ UNCHANGED <<clientVars, exchanges, expiries, queries, streaming,
                   pageSize, msvc, runningJob, fetchVars, chanVars, panicked,
                   fetchFailed, connectFailed>>
    /\ UNCHANGED syncVars
    /\ UNCHANGED conn

\* largeDataPagedQuery 230-247: service.Jobs.Insert(project, &job) is sent
largeDataPagedQueryInsert ==
    /\ ~panicked /\ mpc = "insert"
    /\ issue("insertJob", NilRef, NoPageToken)
    /\ mpc' = "insertWait"
    /\ UNCHANGED <<clientVars, exchanges, expiries, queries, streaming,
                   pageSize, msvc, runningJob, qr, rows, headers, mout, mnext,
                   ret, fetchVars, chanVars, panicked, histVars>>
    /\ UNCHANGED syncVars
    /\ UNCHANGED conn

\* largeDataPagedQuery 247-251: runningJob, jerr := jobInsert.Do(); a jerr is
\* printed and runningJob stays nil
largeDataPagedQueryInserted ==
    /\ ~panicked /\ mpc = "insertWait"
    /\ \E ok \in BOOLEAN : runningJob' = IF ok THEN QueryJob ELSE NilRef
    /\ inflight' = inflight - 1
    /\ mpc' = "jobResults"
    /\ UNCHANGED <<clientVars, exchanges, expiries, queries, totalRows,
                   jobDone, irregular, calls, streaming, pageSize, msvc,
                   qr, rows, headers, mout, mnext, ret, fetchVars, chanVars,
                   panicked, histVars>>
    /\ UNCHANGED syncVars
    /\ UNCHANGED conn

\* largeDataPagedQuery 253: GetQueryResults(project,
\* runningJob.JobReference.JobId) is sent; a nil runningJob is dereferenced
largeDataPagedQueryCall ==
    /\ ~panicked /\ mpc = "jobResults"
    /\ IF runningJob = NilRef
       THEN panicked' = TRUE /\ UNCHANGED <<mpc, backendVars>>
       ELSE /\ issue("getJobResults", runningJob, NoPageToken)
            /\ mpc' = "jobResultsWait" /\ UNCHANGED panicked
    /\ UNCHANGED <<clientVars, exchanges, expiries, queries, streaming,
                   pageSize, msvc, runningJob, qr, rows, headers, mout, mnext,
                   ret, fetchVars, chanVars, histVars>>
    /\ UNCHANGED syncVars
    /\ UNCHANGED conn

\* largeDataPagedQuery 253-274: the response of the first getQueryResults
largeDataPagedQuery ==
    /\ ~panicked /\ mpc = "jobResultsWait"
    /\ \E reply \in JobReplies(totalRows, NoPageToken) :
        /\ backendAfter(reply, 0, TRUE)
        /\ pages' = pagesAfter(reply)
        /\ IF ~reply.ok
           THEN failWith("backend") /\ UNCHANGED <<qr, rows, headers>>
           ELSE firstPage(reply, headersForJobResults(reply),
                          formatResultsFromJob(reply, Len(reply.Rows)))
    /\ UNCHANGED <<clientVars, exchanges, expiries, queries, streaming,
                   pageSize, msvc, runningJob, fetchVars, chanVars, panicked,
                   fetchFailed, connectFailed>>
    /\ UNCHANGED syncVars
    /\ UNCHANGED conn

\* morePages with >= for >
morePagesAtLeast(response, size) ==
    response.TotalRows >= size \/ ~response.JobComplete

\* stdPagedQuery 193 / largeDataPagedQuery 276: is there more to page over?
morePages(response, size) ==
    response.TotalRows > size \/ ~response.JobComplete

\* stdPagedQuery 193-197 / largeDataPagedQuery 276-280: make the channels and
\* start the pageOverJob goroutine, or go straight to the close
startPaging ==
    /\ ~panicked /\ mpc = "page"
    /\ IF morePages(qr, pageSize)
       THEN /\ resultClosed' = FALSE /\ headersClosed' = FALSE
            /\ fpc' = "connect"
            /\ rowCount' = Len(rows)
            /\ jobRef' = IF largePath THEN runningJob ELSE qr.JobReference
            /\ pageToken' = qr.PageToken
            /\ hcNil' = FALSE
            /\ mpc' = "relay"
            /\ UNCHANGED <<fsvc, fqr>>
       ELSE /\ mpc' = "close"
            /\ UNCHANGED <<fetchVars, resultClosed, headersClosed>>
    /\ UNCHANGED <<clientVars, exchanges, expiries, queries, backendVars,
                   streaming, pageSize, msvc, runningJob, qr, rows, headers,
                   mout, mnext, ret, sinkCloses, sink, panicked, histVars>>
    /\ UNCHANGED syncVars
    /\ UNCHANGED conn

\* stdPagedQuery 206-209: resultChan is closed, break L
relayDone ==
    /\ ~panicked /\ mpc = "relay" /\ resultClosed
    /\ mpc' = "close"
    /\ UNCHANGED <<clientVars, exchanges, expiries, queries, backendVars,
                   streaming, pageSize, msvc, runningJob, qr, rows, headers,
                   mout, mnext, ret, fetchVars, chanVars, panicked, histVars>>
    /\ UNCHANGED syncVars
    /\ UNCHANGED conn

\* stdPagedQuery 219-223 / largeDataPagedQuery 302-306
closeAndReturn ==
    /\ ~panicked /\ mpc = "close"
    /\ IF streaming /\ sinkCloses > 0
       THEN panicked' = TRUE /\ UNCHANGED <<mpc, ret, sinkCloses>>
       ELSE /\ sinkCloses' = IF streaming THEN sinkCloses + 1 ELSE sinkCloses
            /\ ret' = [rows |-> rows, headers |-> headers, err |-> "none"]
            /\ mpc' = "done"
            /\ UNCHANGED panicked
    /\ UNCHANGED <<clientVars, exchanges, expiries, queries, backendVars,
                   streaming, pageSize, msvc, runningJob, qr, rows, headers,
                   mout, mnext, fetchVars, resultClosed, headersClosed, sink,
                   histVars>>
    /\ UNCHANGED syncVars
    /\ UNCHANGED conn

----------------------------------------------------------------------------
\* The pageOverJob goroutine (client.go 328-370).

\* pageOverJob 329-332: c.connect(); an error returns without closing resultChan
pageOverJobConnect ==
    /\ ~panicked /\ fpc = "connect"
    /\ \E o \in connect(token, service, exchanges + 1) :
        /\ token' = o.token /\ service' = o.service
        /\ exchanges' = IF o.asserted THEN exchanges + 1 ELSE exchanges
        /\ panicked' = o.panic
        /\ IF o.panic THEN UNCHANGED <<fpc, fsvc>>
           ELSE IF o.err # "none" THEN fpc' = "returned" /\ UNCHANGED fsvc
           ELSE fpc' = "fetch" /\ fsvc' = o.ret
    /\ UNCHANGED <<allowLargeResults, tempTableName, expiries, queries,
                   backendVars, mainVars, rowCount, jobRef, pageToken, hcNil,
                   fqr, chanVars, histVars>>
    /\ UNCHANGED syncVars
    /\ UNCHANGED conn

\* pageOverJob 334-339: GetQueryResults(jobRef) with the page token is sent
pageOverJobCall ==
    /\ ~panicked /\ fpc = "fetch"
    /\ issue("getJobResults", jobRef, pageToken)
    /\ fpc' = "fetchWait"
    /\ UNCHANGED <<clientVars, exchanges, expiries, queries, mainVars, fsvc,
                   rowCount, jobRef, pageToken, hcNil, fqr, chanVars, panicked,
                   histVars>>
    /\ UNCHANGED syncVars
    /\ UNCHANGED conn

\* pageOverJob 339-346: the response; an error closes resultChan and returns
pageOverJobReply ==
    /\ ~panicked /\ fpc = "fetchWait"
    /\ \E reply \in PageReplies(totalRows, pageToken) :
        /\ backendAfter(reply, pageToken, TRUE)
        /\ pages' = pagesAfter(reply)
        /\ IF ~reply.ok
           THEN /\ resultClosed' = TRUE /\ fetchFailed' = TRUE
                /\ fpc' = "returned" /\ UNCHANGED fqr
           ELSE /\ fqr' = reply
                /\ fpc' = IF ~reply.JobComplete THEN "next"
                          ELSE IF ~hcNil THEN "sendHeaders" ELSE "sendRows"
                /\ UNCHANGED <<resultClosed, fetchFailed>>
    /\ UNCHANGED <<clientVars, exchanges, expiries, queries, mainVars, fsvc,
                   rowCount, jobRef, pageToken, hcNil, headersClosed,
                   sinkCloses, sink, panicked, connectFailed>>
    /\ UNCHANGED syncVars
    /\ UNCHANGED conn

\* pageOverJob 347-350 with stdPagedQuery 202-205: headersChan <- headers is
\* received by the relay loop, then close(headersChan); a send on the closed
\* channel panics
pageOverJobHeaders ==
    /\ ~panicked /\ fpc = "sendHeaders"
    /\ IF headersClosed
       THEN panicked' = TRUE /\ UNCHANGED <<headers, headersClosed, fpc>>
       ELSE /\ mpc = "relay"
            /\ headers' = headersForJobResults(fqr)
            /\ headersClosed' = TRUE
            /\ fpc' = "sendRows"
            /\ UNCHANGED panicked
    /\ UNCHANGED <<clientVars, exchanges, expiries, queries, backendVars,
                   mpc, streaming, pageSize, msvc, runningJob, qr, rows, mout,
                   mnext, ret, fsvc, rowCount, jobRef, pageToken, hcNil, fqr,
                   resultClosed, sinkCloses, sink, histVars>>
    /\ UNCHANGED syncVars
    /\ UNCHANGED conn

\* pageOverJobRows whose send does not wait for the relay loop to be receiving
pageOverJobRowsUnblocked ==
    /\ ~panicked /\ fpc = "sendRows" /\ ~resultClosed
    /\ LET newRows == formatResultsFromJob(fqr, Len(fqr.Rows)) IN
        /\ IF streaming
           THEN /\ mout' = Data(headers, newRows, "none")
                /\ mpc' = "send" /\ mnext' = "relay"
                /\ UNCHANGED rows
           ELSE /\ rows' = rows \o newRows
                /\ UNCHANGED <<mout, mpc, mnext>>
        /\ rowCount' = rowCount + Len(newRows)
    /\ fpc' = "next"
    /\ UNCHANGED <<clientVars, exchanges, expiries, queries, backendVars,
                   streaming, pageSize, msvc, runningJob, qr, headers, ret,
                   fsvc, jobRef, pageToken, hcNil, fqr, chanVars, panicked,
                   histVars>>
    /\ UNCHANGED syncVars
    /\ UNCHANGED conn

\* pageOverJobRows that puts the new page in front of the accumulated rows
pageOverJobRowsPrepend ==
    /\ ~panicked /\ fpc = "sendRows" /\ mpc = "relay" /\ ~resultClosed
    /\ LET newRows == formatResultsFromJob(fqr, Len(fqr.Rows)) IN
        /\ IF streaming
           THEN /\ mout' = Data(headers, newRows, "none")
                /\ mpc' = "send" /\ mnext' = "relay"
                /\ UNCHANGED rows
           ELSE /\ rows' = newRows \o rows
                /\ UNCHANGED <<mout, mpc, mnext>>
        /\ rowCount' = rowCount + Len(newRows)
    /\ fpc' = "next"
    /\ UNCHANGED <<clientVars, exchanges, expiries, queries, backendVars,
                   streaming, pageSize, msvc, runningJob, qr, headers, ret,
                   fsvc, jobRef, pageToken, hcNil, fqr, chanVars, panicked,
                   histVars>>
    /\ UNCHANGED syncVars
    /\ UNCHANGED conn

\* pageOverJob 352-355 with stdPagedQuery 206-214: resultChan <- rows is
\* received by the relay loop, which forwards the page to dataChan or appends it
pageOverJobRows ==
    /\ ~panicked /\ fpc = "sendRows" /\ mpc = "relay" /\ ~resultClosed
    /\ LET newRows == formatResultsFromJob(fqr, Len(fqr.Rows)) IN
        /\ IF streaming
           THEN /\ mout' = Data(headers, newRows, "none")
                /\ mpc' = "send" /\ mnext' = "relay"
                /\ UNCHANGED rows
           ELSE /\ rows' = rows \o newRows
                /\ UNCHANGED <<mout, mpc, mnext>>
        /\ rowCount' = rowCount + Len(newRows)
    /\ fpc' = "next"
    /\ UNCHANGED <<clientVars, exchanges, expiries, queries, backendVars,
                   streaming, pageSize, msvc, runningJob, qr, headers, ret,
                   fsvc, jobRef, pageToken, hcNil, fqr, chanVars, panicked,
                   histVars>>
    /\ UNCHANGED syncVars
    /\ UNCHANGED conn

\* moreRows that takes an empty page for the end of the result
moreRowsStopOnEmpty(response, count) ==
    \/ response.TotalRows > count /\ Len(response.Rows) > 0
    \/ ~response.JobComplete

\* pageOverJob 358: does the loop go on?
moreRows(response, count) ==
    response.TotalRows > count \/ ~response.JobComplete

\* pageOverJob 359-363: the arguments <<jobRef, pageToken, headersChan is nil>>
\* of the recursive call
nextFetch(response, ref, tok, nilChan) ==
    IF response.JobReference = NilRef
    THEN <<ref, tok, nilChan>>
    ELSE <<response.JobReference, response.PageToken, TRUE>>

\* pageOverJob 358-369: recurse, or close resultChan and return
pageOverJobNext ==
    /\ ~panicked /\ fpc = "next"
    /\ IF moreRows(fqr, rowCount)
       THEN LET a == nextFetch(fqr, jobRef, pageToken, hcNil) IN
            /\ jobRef' = a[1] /\ pageToken' = a[2] /\ hcNil' = a[3]
            /\ fpc' = "connect"
            /\ UNCHANGED resultClosed
       ELSE /\ resultClosed' = TRUE
            /\ fpc' = "returned"
            /\ UNCHANGED <<jobRef, pageToken, hcNil>>
    /\ UNCHANGED <<clientVars, exchanges, expiries, queries, backendVars,
                   mainVars, fsvc, rowCount, fqr, headersClosed, sinkCloses,
                   sink, panicked, histVars>>
    /\ UNCHANGED syncVars
    /\ UNCHANGED conn

----------------------------------------------------------------------------
Next ==
    \/ AsyncQuery
    \/ Query
    \/ Expire
    \/ pagedQuery
    \/ consume
    \/ stdPagedQueryCall
    \/ stdPagedQuery
    \/ largeDataPagedQueryInsert
    \/ largeDataPagedQueryInserted
    \/ largeDataPagedQueryCall
    \/ largeDataPagedQuery
    \/ startPaging
    \/ relayDone
    \/ closeAndReturn
    \/ pageOverJobConnect
    \/ pageOverJobCall
    \/ pageOverJobReply
    \/ pageOverJobHeaders
    \/ pageOverJobRows
    \/ pageOverJobNext

Spec == Init /\ [][Next]_vars

----------------------------------------------------------------------------
\* SyncQuery, Count and InsertRow (client.go 117-142, 373-405, 458-468).
pagingVars == <<mainVars, fetchVars, chanVars, histVars>>

\* A caller invokes op on the client.
syncBegin(op, maxResults) ==
    /\ ~panicked /\ spc \in {"idle", "done"} /\ queries < MaxQueries
    /\ queries' = queries + 1
    /\ sop' = [op |-> op, maxResults |-> maxResults]
    /\ totalRows' \in 0..MaxTotal
    /\ irregular' = 0 /\ calls' = <<>> /\ inflight' = 0
    /\ spc' = "connect" /\ sres' = NoReply /\ sret' = NoSyncRet
    /\ UNCHANGED <<clientVars, exchanges, expiries, jobDone, pagingVars,
                   panicked>>
    /\ UNCHANGED conn

\* client.go 373: SyncQuery(dataset, project, queryStr, maxResults)
SyncQueryCall == \E maxResults \in 1..MaxPageSize :
                    syncBegin("SyncQuery", maxResults)

\* client.go 458-460: Count calls SyncQuery(dataset, project, qstr, 1)
CountCall == syncBegin("Count", 1)

\* client.go 117: InsertRow(projectID, datasetID, tableID, rowData)
InsertRowCall == syncBegin("InsertRow", 0)

\* What the call in the frame returns to its caller when SyncQuery returns
\* <<r, e>> (Count 459-467) or InsertRow returns e.
syncReturn(r, e) ==
    sret' = IF sop.op = "Count" THEN SyncRet(<<>>, Count(r, e), NoErr)
            ELSE SyncRet(r, 0, e)

\* SyncQuery 374-377 / InsertRow 118-121: c.connect()
syncConnect ==
    /\ ~panicked /\ spc = "connect"
    /\ \E o \in connect(token, service, exchanges + 1) :
        /\ token' = o.token /\ service' = o.service
        /\ exchanges' = IF o.asserted THEN exchanges + 1 ELSE exchanges
        /\ panicked' = o.panic
        /\ IF o.panic
           THEN spc' = "panic: read key file" /\ UNCHANGED sret
           ELSE IF o.err # "none"
           THEN syncReturn(<<>>, Err(o.err)) /\ spc' = "done"
           ELSE spc' = "call" /\ UNCHANGED sret
    /\ UNCHANGED <<allowLargeResults, tempTableName, expiries, queries,
                   backendVars, pagingVars, sop, sres>>
    /\ UNCHANGED conn

\* SyncQuery 391 / InsertRow 131: the request is sent
syncIssue ==
    /\ ~panicked /\ spc = "call"
    /\ issue(IF sop.op = "InsertRow" THEN "insertAll" ELSE "submitQuery",
             NilRef, NoPageToken)
    /\ spc' = "wait"
    /\ UNCHANGED <<clientVars, exchanges, expiries, queries, pagingVars,
                   panicked, sop, sres, sret>>
    /\ UNCHANGED conn

\* SyncQuery 391-404: the response of jobs.query is formatted and returned
SyncQuery ==
    /\ ~panicked /\ spc = "wait" /\ sop.op \in {"SyncQuery", "Count"}
    /\ \E results \in SyncReplies(sop.op, totalRows, sop.maxResults) :
        /\ sres' = results
        /\ IF ~results.ok
           THEN /\ syncReturn(<<>>, Err("backend"))
                /\ spc' = "done" /\ UNCHANGED panicked
           ELSE LET numRows == Min(results.TotalRows, sop.maxResults) IN
                IF formatOverrun(results, numRows)
                THEN /\ panicked' = TRUE
                     /\ spc' = "panic: index out of range"
                     /\ UNCHANGED sret
                ELSE /\ syncReturn(formatResults(results, numRows), NoErr)
                     /\ spc' = "done" /\ UNCHANGED panicked
        /\ irregular' = IF results.ok /\ results.JobComplete
                           /\ Len(results.Rows)
                                < Min(results.TotalRows, sop.maxResults)
                        THEN irregular + 1 ELSE irregular
    /\ inflight' = inflight - 1
    /\ UNCHANGED <<clientVars, exchanges, expiries, queries, totalRows,
                   jobDone, calls, pagingVars, sop>>
    /\ UNCHANGED conn

\* InsertRow 131-141: the response of tabledata.insertAll
InsertRow ==
    /\ ~panicked /\ spc = "wait" /\ sop.op = "InsertRow"
    /\ \E result \in InsertReplies :
        /\ sres' = result
        /\ sret' = SyncRet(<<>>, 0,
                     IF ~result.ok THEN Err("backend")
                     ELSE IF Cardinality(result.InsertErrors) > 0
                     THEN Err("Error inserting row")
                     ELSE NoErr)
    /\ spc' = "done" /\ inflight' = inflight - 1
    /\ UNCHANGED <<clientVars, exchanges, expiries, queries, totalRows,
                   jobDone, irregular, calls, pagingVars, panicked, sop>>
    /\ UNCHANGED conn

SyncNext ==
    \/ SyncQueryCall
    \/ CountCall
    \/ InsertRowCall
    \/ Expire
    \/ syncConnect
    \/ syncIssue
    \/ SyncQuery
    \/ InsertRow

SyncSpec == Init /\ [][SyncNext]_vars

----------------------------------------------------------------------------
\* connect() called by concurrent goroutines on one client (client.go 68-114):
\* the steps of connect between which another caller can run.
otherVars == <<allowLargeResults, tempTableName, backendVars, pagingVars,
               syncVars>>

\* A goroutine calls c.connect() (pagedQuery 311, pageOverJob 329, ...)
connectCall(p) ==
    /\ ~panicked /\ conn[p].pc \in {"idle", "done"} /\ queries < MaxQueries
    /\ queries' = queries + 1
    /\ conn' = [conn EXCEPT ![p] = Connect("check", 0, NoService, "none")]
    /\ UNCHANGED <<token, service, exchanges, expiries, panicked, otherVars>>

\* connect 69-73: the cached session is returned, or a new one is made
connectCheck(p) ==
    /\ ~panicked /\ conn[p].pc = "check"
    /\ conn' = [conn EXCEPT ![p] =
                  IF tokenReusable(token, service)
                  THEN Connect("done", 0, service, "none")
                  ELSE Connect("read", 0, NoService, "none")]
    /\ UNCHANGED <<token, service, exchanges, expiries, queries, panicked,
                   otherVars>>

\* connect 77-83: the key file is read (a failure panics) and the credential
\* exchange t.Assert(httpClient) is started
connectAssert(p) ==
    /\ ~panicked /\ conn[p].pc = "read"
    /\ \E readable \in BOOLEAN :
        IF readable
        THEN /\ exchanges' = exchanges + 1
             /\ conn' = [conn EXCEPT ![p] =
                           Connect("asserting", exchanges + 1, NoService,
                                   "none")]
             /\ UNCHANGED panicked
        ELSE panicked' = TRUE /\ UNCHANGED <<exchanges, conn>>
    /\ UNCHANGED <<token, service, expiries, queries, otherVars>>

\* connect 83-88: the exchange returns; its token is stored in c.token
connectAsserted(p) ==
    /\ ~panicked /\ conn[p].pc = "asserting"
    /\ \E ok \in BOOLEAN :
        IF ok
        THEN /\ token' = [gen |-> conn[p].gen, expired |-> FALSE]
             /\ conn' = [conn EXCEPT ![p].pc = "new"]
        ELSE /\ conn' = [conn EXCEPT ![p] =
                           Connect("done", conn[p].gen, NoService, "auth")]
             /\ UNCHANGED token
    /\ UNCHANGED <<service, exchanges, expiries, queries, panicked,
                   otherVars>>

\* connect 106-113: bigquery.New(client); the handle is stored in c.service
connectNew(p) ==
    /\ ~panicked /\ conn[p].pc = "new"
    /\ \E ok \in BOOLEAN :
        IF ok
        THEN /\ service' = conn[p].gen
             /\ conn' = [conn EXCEPT ![p] =
                           Connect("done", conn[p].gen, conn[p].gen, "none")]
        ELSE /\ conn' = [conn EXCEPT ![p] =
                           Connect("done", conn[p].gen, NoService, "auth")]
             /\ UNCHANGED service
    /\ UNCHANGED <<token, exchanges, expiries, queries, panicked, otherVars>>

ConnNext ==
    \/ Expire
    \/ \E p \in Callers :
        \/ connectCall(p)
        \/ connectCheck(p)
        \/ connectAssert(p)
        \/ connectAsserted(p)
        \/ connectNew(p)

ConnSpec == Init /\ [][ConnNext]_vars



----------------------------------------------------------------------------
\* What the caller should see of a result of T rows.
SchemaNames == <<"id", "name">>
AllRows(T) == [r \in 1..T |-> <<r, r + 10>>]

RECURSIVE SinkRowsOf(_)
SinkRowsOf(events) ==
    IF events = <<>> THEN <<>>
    ELSE SinkRowsOf(SubSeq(events, 1, Len(events) - 1))
         \o events[Len(events)].Rows
SinkRows == SinkRowsOf(sink)

returned == ~panicked /\ mpc = "done"
OpsIssued == {calls[i].op : i \in 1..Len(calls)}

\* C1: when totalRows > pageSize and every fetch succeeded, the buffered call
\* returns exactly the totalRows rows of the result, and the streaming call's
\* events carry exactly those rows, each page once.
C1_AllRowsDelivered ==
    (returned /\ ret.err = "none" /\ ~fetchFailed /\ totalRows > pageSize)
        => IF streaming THEN SinkRows = AllRows(totalRows)
                        ELSE ret.rows = AllRows(totalRows)

\* C2: when a continuation fetch failed, the buffered call returns that error.
C2_BufferedReturnsFetchError ==
    (returned /\ ~streaming /\ fetchFailed) => ret.err = "backend"

ErrorEvents == {i \in 1..Len(sink) : sink[i].Err # "none"}

\* C3: when a continuation fetch failed in streaming mode, the sink has
\* received exactly one error event, it is the last event, and the sink is
\* closed.
C3_StreamGetsOneErrorEvent ==
    (returned /\ streaming /\ fetchFailed)
        => /\ Cardinality(ErrorEvents) = 1
           /\ sink[Len(sink)].Err # "none"
           /\ sinkCloses = 1

\* C4: on every path by which a streaming execution ends, the sink has been
\* closed exactly once.
C4_SinkClosedOnce ==
    (returned /\ streaming) => sinkCloses = 1

RowEvents == {i \in 1..Len(sink) : sink[i].Rows # <<>>}

\* C5: a call that ends without error, all of its fetches having succeeded,
\* returns (buffered) or carries on every row-carrying event (streaming) the
\* schema field names in schema order.
C5_HeadersAreSchemaNames ==
    (returned /\ ret.err = "none" /\ ~fetchFailed)
        => IF streaming
           THEN \A i \in RowEvents : sink[i].Headers = SchemaNames
           ELSE ret.headers = SchemaNames

\* C6: when the credential exchange fails as a query starts, the call returns
\* the authentication error with no rows and no headers, a streaming call has
\* sent exactly that error to the sink, and no backend call is issued.
C6_AuthFailureNoBackendCall ==
    connectFailed
        => /\ calls = <<>>
           /\ returned =>
                /\ ret = [rows |-> <<>>, headers |-> <<>>, err |-> "auth"]
                /\ sink = IF streaming THEN <<Data(<<>>, <<>>, "auth")>>
                          ELSE <<>>

C6_Witness ==
    returned /\ connectFailed /\ streaming /\ Len(sink) = 1

\* C7: on the submit-query path, when totalRows <= pageSize and the initial
\* response is complete, exactly one backend call (submit-query) is issued and
\* exactly the totalRows rows of the result are returned.
C7_OneCallAllRows ==
    (/\ returned /\ ret.err = "none"
     /\ ~(allowLargeResults /\ tempTableName # <<>>)
     /\ qr.JobComplete /\ totalRows <= pageSize)
        => /\ Len(calls) = 1 /\ calls[1].op = "submitQuery"
           /\ (IF streaming THEN SinkRows ELSE ret.rows) = AllRows(totalRows)

\* C8: in streaming mode, when the result fits in one page and the initial
\* response is complete, the sink receives exactly one event, carrying the
\* headers and the rows of that response and no error, and is then closed.
C8_OneEventThenClose ==
    (streaming /\ qr.JobComplete /\ totalRows <= pageSize)
        => /\ Len(sink) <= 1
           /\ sinkCloses > 0 => Len(sink) = 1
           /\ returned =>
                /\ sinkCloses = 1
                /\ sink = <<Data(SchemaNames,
                                 AllRows(Len(qr.Rows)), "none")>>

C8_Witness ==
    /\ returned /\ streaming /\ qr.JobComplete
    /\ totalRows = pageSize /\ Len(sink) = 1 /\ sinkCloses = 1

\* C9: a paged query issues insert-job, then get-job-results, and never
\* submit-query exactly when allowLargeResults is set and the temp table name
\* is non-empty; otherwise it issues submit-query first and never insert-job.
C9_LargePathIffConfigured ==
    LET large == allowLargeResults /\ tempTableName # <<>> IN
    /\ calls # <<>> => (calls[1].op = "insertJob" <=> large)
    /\ calls # <<>> => (calls[1].op = "submitQuery" <=> ~large)
    /\ large => "submitQuery" \notin OpsIssued
    /\ ~large => "insertJob" \notin OpsIssued
    /\ \A i \in 2..Len(calls) : calls[i].op = "getJobResults"

C9_Witness ==
    /\ allowLargeResults /\ tempTableName # <<>>
    /\ mpc = "relay" /\ fpc = "fetchWait"
    /\ Len(calls) = 3 /\ calls[1].op = "insertJob"

\* A step in which a connect() call returned to pagedQuery or pageOverJob.
connectReturns ==
    \/ mpc = "connect" /\ mpc' # "connect"
    \/ fpc = "connect" /\ fpc' # "connect"

\* C10: connect performs a credential exchange only when the cached token is
\* absent or expired or no handle is cached; with an unexpired token and a
\* cached handle it returns the cached handle and leaves both unchanged.
C10_ConnectReusesSession ==
    [][ /\ exchanges' # exchanges
            => (token = NoToken \/ token.expired \/ service = NoService)
        /\ (connectReturns /\ token # NoToken /\ ~token.expired
                /\ service # NoService)
            => /\ token' = token /\ service' = service
               /\ exchanges' = exchanges
               /\ mpc = "connect" => msvc' = service
               /\ fpc = "connect" => fsvc' = service ]_vars

C10_Witness ==
    /\ queries = 2 /\ mpc = "query" /\ exchanges = 1
    /\ token = [gen |-> 1, expired |-> FALSE] /\ service = 1 /\ msvc = 1

\* C14: the continuation loop is skipped only when the first response is
\* complete and already carries totalRows rows, and once entered the paging
\* stops (resultChan closed without a fetch error) only when the rows
\* accumulated so far are at least totalRows and the job is complete.
C14_PagesUntilAllRows ==
    /\ (mpc = "close" /\ fpc = "none")
        => (qr.JobComplete /\ Len(rows) >= qr.TotalRows)
    /\ (fpc = "returned" /\ resultClosed /\ ~fetchFailed)
        => (fqr.JobComplete /\ rowCount >= fqr.TotalRows)

\* C15: the fetch that follows a page reply uses the page token of that
\* reply, with the job reference of the reply when it carries one and the
\* job reference of the previous fetch when it carries none.
C15_NextFetchUsesLatestToken ==
    (fpc \in {"connect", "fetch"} /\ fqr.ok)
        => /\ pageToken = fqr.PageToken
           /\ jobRef = IF fqr.JobReference # NilRef THEN fqr.JobReference
                       ELSE calls[Len(calls)].ref

\* C16: pageOverJob never sends on headersChan after closing it, never sends
\* on resultChan after closing it, and has returned once resultChan is closed.
C16_NoUseOfClosedChannel ==
    /\ ~(fpc = "sendHeaders" /\ headersClosed)
    /\ ~(fpc = "sendRows" /\ resultClosed)
    /\ resultClosed => fpc = "returned"

\* C17: a paging execution never reaches a state from which it cannot
\* terminate: the relay loop is never left waiting on resultChan after
\* pageOverJob has returned without closing it.
C17_RelayNeverStuck ==
    ~(mpc = "relay" /\ fpc = "returned" /\ ~resultClosed)

\* C19: at most one backend request is in flight at any time within one
\* query execution.
C19_OneRequestInFlight ==
    inflight <= 1

C19_Witness ==
    /\ streaming /\ mpc = "send" /\ mnext = "relay"
    /\ fpc = "fetchWait" /\ inflight = 1 /\ Len(calls) = 3

RECURSIVE Concat(_)
Concat(seqs) ==
    IF seqs = <<>> THEN <<>>
    ELSE Concat(SubSeq(seqs, 1, Len(seqs) - 1)) \o seqs[Len(seqs)]

\* C20: a call that ends without error returns (buffered) the concatenation
\* of the pages' rows in the order the pages were fetched, and has sent
\* (streaming) one event per page, in that order, carrying that page's rows.
C20_RowsInFetchOrder ==
    (returned /\ ret.err = "none")
        => IF streaming
           THEN [i \in 1..Len(sink) |-> sink[i].Rows] = pages
           ELSE ret.rows = Concat(pages)

C20_Witness ==
    /\ returned /\ ret.err = "none" /\ ~streaming
    /\ Len(pages) = 2 /\ pages[1] # <<>> /\ pages[2] # <<>>
    /\ ret.rows = AllRows(3)

\* C18: once the headers of a query are known, no later page empties them:
\* the headers become empty again only when a new call starts.
C18_HeadersNeverEmptied ==
    [][(headers # <<>> /\ headers' = <<>>) => mpc' = "connect"]_vars

\* C11: Count never aborts and returns a plain number: 0 when connect or the
\* backend query failed, and the integer written in the first cell of the
\* first returned row (the table's row count) otherwise.
C11_CountNeverAborts ==
    sop.op = "Count"
        => /\ ~panicked
           /\ spc = "done"
                => /\ sret.err = NoErr
                   /\ sret.val = IF calls = <<>> \/ ~sres.ok \/ sres.Rows = <<>>
                                 THEN 0 ELSE totalRows

\* C12: formatting the response with the row limit SyncQuery passes never
\* aborts: SyncQuery returns the first min(totalRows, maxResults) rows, and a
\* limit above the rows of the response does not index past them.
C12_FormatWithinRows ==
    /\ spc # "panic: index out of range"
    /\ (sop.op = "SyncQuery" /\ spc = "done" /\ sres.ok)
        => sret.rows = AllRows(Min(sres.TotalRows, sop.maxResults))

\* C13: InsertRow returns nil exactly when the backend call succeeded with no
\* insert errors, and when the backend reports insert errors the returned
\* error identifies exactly the fields that failed.
C13_InsertErrorIdentifiesFields ==
    (sop.op = "InsertRow" /\ spc = "done" /\ calls # <<>>)
        => /\ sret.err = NoErr <=> (sres.ok /\ sres.InsertErrors = {})
           /\ sres.ok => sret.err.fields = sres.InsertErrors

\* The reply pageOverJob holds is a complete page without rows while rows
\* are missing, or says that the job is not complete.
emptyOrIncomplete ==
    \/ fqr.JobComplete /\ Len(fqr.Rows) = 0 /\ rowCount < fqr.TotalRows
    \/ ~fqr.JobComplete

\* C21: after a complete page without rows while the accumulated rows are
\* below totalRows, or after a reply that says the job is not complete,
\* pageOverJob goes on to the next fetch (the recursive call) and closes
\* neither resultChan nor the sink.
C21_EmptyPageContinues ==
    [][(fpc = "next" /\ fpc' # "next" /\ emptyOrIncomplete)
        => /\ fpc' = "connect"
           /\ ~resultClosed' /\ sinkCloses' = 0 ]_vars

C21_Witness ==
    /\ fpc = "fetchWait" /\ fqr.ok /\ fqr.JobComplete /\ Len(fqr.Rows) = 0
    /\ rowCount < fqr.TotalRows /\ Len(pages) = 2 /\ pages[1] # <<>>
    /\ ~resultClosed /\ sinkCloses = 0

\* The job insertion of the large-result path was rejected.
insertRejected ==
    /\ calls # <<>> /\ calls[1].op = "insertJob"
    /\ mpc \notin {"insert", "insertWait"} /\ runningJob = NilRef

\* C24: when the backend rejects the job insertion, the call does not abort
\* and issues no get-job-results call; it ends with the backend error, which
\* a streaming call has sent to the sink.
C24_InsertRejectionIsAnError ==
    insertRejected
        => /\ ~panicked
           /\ Len(calls) = 1
           /\ returned =>
                /\ ret.err = "backend"
                /\ streaming => sink = <<Data(<<>>, <<>>, "backend")>>

\* Pages fetched from the backend that the consumer has not received yet.
pendingPages == Len(pages) - (Len(sink) - Cardinality(ErrorEvents))

\* C22: in streaming mode at most two fetched pages are waiting for the
\* consumer, and while two are waiting pageOverJob is blocked on its send
\* with no fetch in flight.
C22_BackPressure ==
    streaming
        => /\ pendingPages <= 2
           /\ pendingPages = 2
                => /\ mpc = "send"
                   /\ fpc \in {"sendHeaders", "sendRows"}
                   /\ inflight = 0

C22_Witness ==
    /\ streaming /\ ~panicked /\ pendingPages = 2 /\ Len(pages) = 3
    /\ mpc = "send" /\ fpc = "sendRows" /\ Len(calls) = 3

\* Callers whose credential exchange is in flight.
exchanging == {p \in Callers : conn[p].pc = "asserting"}

\* C23: with concurrent callers at most one credential exchange is in flight
\* at any time, and whenever no caller is between storing the token and
\* storing the handle, the cached token and handle come from the same exchange.
C23_RefreshSerialized ==
    /\ Cardinality(exchanging) <= 1
    /\ (service # NoService /\ \A p \in Callers : conn[p].pc # "new")
        => token.gen = service

====
